---- MODULE Spec2Model ----
(***************************************************************************)
(* gcalcron: synchronisation of Google Calendar events to UNIX "at" jobs.  *)
(* The model follows src/gcalcron.py: one run of main() is a process that  *)
(* loads the settings file, fetches a batch of events, parses it, cancels  *)
(* the jobs recorded for the fetched events, schedules the new commands,   *)
(* cleans old records and saves the settings file.                         *)
(*                                                                         *)
(* Time is counted in ticks; a calendar day has DayLen ticks.  The at      *)
(* queue (atq) and the settings file (disk) outlive a run, the in-memory   *)
(* settings do not.                                                        *)
(***************************************************************************)
EXTENDS Integers, Sequences, FiniteSets, TLC

\* ---------------------------------------------------------------- bounds
MaxNow == 3
DayLen == 2
StartAhead == 1
EventLen == 1
MaxPerQuery == 1
MaxJobs == 3
MaxOffset == 1

\* num_days=datetime.timedelta(days=7)
NumDays == 7

Ids == {"e1", "e2"}

VARIABLES
  now,           \* the wall clock, datetime.datetime.now()
  disk,          \* gcalcron_conf.json: [jobs, last_sync]
  atq,           \* jobs pending in the OS scheduler: set of [id, uid, time]
  nextId,        \* the job number the OS scheduler hands out next
  pc,            \* position of the running process, "idle" when there is none
  settings,      \* GCalCron.settings of the running process
  sync_start,    \* sync_gcal_to_cron's sync_start
  queries,       \* the queries get_events built
  events,        \* the entries query_api returned
  command_list,  \* parse_events' result
  idx,           \* schedule_new_jobs' position in command_list
  startJobs,     \* settings['jobs'] as loaded at the start of the run
  cancelReq,     \* job ids handed to "at -d" in this run
  schedReq,      \* "at" invocations of this run: Seq of [uid, time, id]
  fetchStatus,   \* "none" | "ok" | "revoked" (AccessTokenRefreshError swallowed)
  outcome,       \* "none" | "succeeded" ('Sync succeeded' logged) | "failed" | "reset"
  plan,          \* the batch a two-cycle experiment feeds to both cycles
  prev           \* what the first cycle of such an experiment left behind

vars == <<now, disk, atq, nextId, pc, settings, sync_start, queries, events,
          command_list, idx, startJobs, cancelReq, schedReq, fetchStatus,
          outcome, plan, prev>>

procVars == <<settings, sync_start, queries, events, command_list, idx,
              startJobs, cancelReq, schedReq, fetchStatus>>

\* ------------------------------------------------------------ data model
EmptyJobs == [u \in {} |-> 0]

\* init_settings: {"jobs": {}, "calendarId": ..., "last_sync": None}
init_settings == [jobs |-> EmptyJobs, last_sync |-> <<>>]

Line(a, o) == [anchor |-> a, off |-> o]

\* "echo hi"
DescOne == <<Line("start", 0)>>
\* "echo hi\nend: echo bye"
DescTwo == <<Line("start", 0), Line("end", 0)>>

Descs == {<<>>, DescOne, DescTwo}

Event(i, st, s, e, d, b) ==
  [id |-> i, status |-> st, start |-> s, end |-> e, description |-> d, bad |-> b]

\* The events the calendar can hold at time t.  bad marks a start
\* dateTime string dateutil cannot parse (the end string is never parsed).  The code reads neither the times
\* nor the description of a cancelled event, and of the description of an
\* event that starts now or earlier only whether it is empty: those fields
\* are fixed in such events.
EventsAt(t) ==
  LET all == { Event(i, st, s, s + EventLen, d, b) :
                 i \in Ids, st \in {"confirmed", "cancelled"},
                 s \in {x \in (t - 1)..(t + StartAhead) : x >= 0},
                 d \in Descs, b \in BOOLEAN }
      plain(e) == e.description = DescOne /\ ~e.bad
  IN { e \in all : /\ e.status = "cancelled" => plain(e) /\ e.start = t + 1
                   /\ e.start <= t => plain(e)
                   /\ e.bad => e.description = DescOne }

SeqsUpTo(S, n) == UNION { [1..k -> S] : k \in 0..n }

RECURSIVE SeqToSet(_)
SeqToSet(s) == IF s = <<>> THEN {} ELSE {Head(s)} \cup SeqToSet(Tail(s))

Del(f, k) == [x \in DOMAIN f \ {k} |-> f[x]]
Put(f, k, v) == [x \in DOMAIN f \cup {k} |-> IF x = k THEN v ELSE f[x]]

\* strftime('%Y-%m-%d') and strptime(..., '%Y-%m-%d')
DateOf(t) == t \div DayLen
DateToTime(d) == d * DayLen

num_days == NumDays * DayLen

\* ------------------------------------------------------------ GCalAdapter
\* get_query: updatedMin and showDeleted are set only when updated_min is given
get_query(start_min, start_max, updated_min) ==
  [timeMin |-> start_min, timeMax |-> start_max, updatedMin |-> updated_min,
   showDeleted |-> updated_min # <<>>]

\* get_events without the split of lines 170-174
get_events_one_window(start, last_sync) ==
  << get_query(start, start + num_days, last_sync) >>

\* get_events: the queries built for (sync_start, last_sync)
get_events(start, last_sync) ==
  LET end == start + num_days IN
  IF last_sync # <<>>
    THEN << get_query(start, last_sync[1] + num_days, last_sync),
            get_query(last_sync[1] + num_days, end, <<>>) >>
    ELSE << get_query(start, end, <<>>) >>

\* What one events().list call can return for query q at time t: up to
\* MaxPerQuery distinct events, deleted ones only when showDeleted is set.
QueryResults(q, t) ==
  { r \in SeqsUpTo({e \in EventsAt(t) : q.showDeleted \/ e.status = "confirmed"},
                   MaxPerQuery) :
      \A i, j \in 1..Len(r) : r[i].id = r[j].id => i = j }

RECURSIVE Concat(_)
Concat(ss) == IF ss = <<>> THEN <<>> ELSE Head(ss) \o Concat(Tail(ss))

\* The calendar does not change between the queries of one fetch.
Snapshot(b) == \A i, j \in 1..Len(b) : b[i].id = b[j].id => b[i] = b[j]

\* ---------------------------------------------------------------- parsing
\* parse_command: one command for the whole description, at the event's start
parse_command(e, t) ==
  IF e.start >= t
    THEN << [exec_time |-> e.start,
             command |-> [start |-> e.start, end |-> e.end,
                          description |-> e.description]] >>
    ELSE <<>>

\* dateutil.parser.parse raises on a malformed start, inside parse_command
ParseRaises(evs) ==
  \E i \in 1..Len(evs) :
    evs[i].status # "cancelled" /\ evs[i].description # <<>> /\ evs[i].bad

\* parse_events without lines 390-394: a cancelled event yields no entry
RECURSIVE parse_events_drop_cancelled(_, _)
parse_events_drop_cancelled(evs, t) ==
  IF evs = <<>> THEN <<>>
  ELSE LET e == Head(evs)
           rest == parse_events_drop_cancelled(Tail(evs), t)
       IN IF e.status # "cancelled" /\ e.description # <<>> /\ parse_command(e, t) # <<>>
            THEN <<[uid |-> e.id, command |-> parse_command(e, t)]>> \o rest
          ELSE rest

RECURSIVE parse_events(_, _)
parse_events(evs, t) ==
  IF evs = <<>> THEN <<>>
  ELSE LET e == Head(evs)
           rest == parse_events(Tail(evs), t)
       IN IF e.status = "cancelled"
            THEN <<[uid |-> e.id, command |-> <<>>]>> \o rest
          ELSE IF e.description # <<>> /\ parse_command(e, t) # <<>>
            THEN <<[uid |-> e.id, command |-> parse_command(e, t)]>> \o rest
          ELSE rest

\* ------------------------------------------------------------------ store
\* unschedule_old_jobs that passes over the events that carry a command
RECURSIVE RemovedJobIdsCancelledOnly(_, _)
RemovedJobIdsCancelledOnly(cl, jobs) ==
  IF cl = <<>> THEN <<>>
  ELSE IF Head(cl).uid \in DOMAIN jobs /\ Head(cl).command = <<>>
    THEN jobs[Head(cl).uid].ids
           \o RemovedJobIdsCancelledOnly(Tail(cl), Del(jobs, Head(cl).uid))
    ELSE RemovedJobIdsCancelledOnly(Tail(cl), jobs)

\* unschedule_old_jobs, the loop: the ids collected and the jobs left
RECURSIVE RemovedJobIds(_, _)
RemovedJobIds(cl, jobs) ==
  IF cl = <<>> THEN <<>>
  ELSE IF Head(cl).uid \in DOMAIN jobs
    THEN jobs[Head(cl).uid].ids \o RemovedJobIds(Tail(cl), Del(jobs, Head(cl).uid))
    ELSE RemovedJobIds(Tail(cl), jobs)

\* unschedule_old_jobs without the del of line 248
JobsKept(cl, jobs) == jobs

RECURSIVE JobsAfterUnschedule(_, _)
JobsAfterUnschedule(cl, jobs) ==
  IF cl = <<>> THEN jobs
  ELSE IF Head(cl).uid \in DOMAIN jobs
    THEN JobsAfterUnschedule(Tail(cl), Del(jobs, Head(cl).uid))
    ELSE JobsAfterUnschedule(Tail(cl), jobs)

\* the ids a record holds, none when there is no record
IdsOf(jobs, u) == IF u \in DOMAIN jobs THEN SeqToSet(jobs[u].ids) ELSE {}

\* schedule_new_jobs that files job_id under a record already there
\* (a stale uid) when there is one
RecordJobUnderStale(jobs, uid, exec_time, job_id) ==
  IF jobs # EmptyJobs
    THEN LET v == CHOOSE x \in DOMAIN jobs : TRUE
         IN [jobs EXCEPT ![v].ids = Append(@, job_id)]
    ELSE Put(jobs, uid, [date |-> DateOf(exec_time), ids |-> <<job_id>>])

\* schedule_new_jobs, lines 280-286: record job_id under the event's uid
RecordJob(jobs, uid, exec_time, job_id) ==
  IF uid \in DOMAIN jobs
    THEN [jobs EXCEPT ![uid].ids = Append(@, job_id)]
    ELSE Put(jobs, uid, [date |-> DateOf(exec_time), ids |-> <<job_id>>])

\* clean_settings with < for <=
ExpiredStrict(job, t) == DateToTime(job.date) < t - DayLen

\* clean_settings: the records that go
Expired(job, t) == DateToTime(job.date) <= t - DayLen

clean_settings(jobs, t) ==
  [u \in {x \in DOMAIN jobs : ~Expired(jobs[x], t)} |-> jobs[u]]

\* "at -d" takes the ids out of the queue
AtRemove(q, ids) == {j \in q : j.id \notin ids}

AllIds(jobs) == UNION { SeqToSet(jobs[u].ids) : u \in DOMAIN jobs }

\* ------------------------------------------------------------------- Init
Init ==
  /\ now = 0
  /\ disk = init_settings
  /\ atq = {}
  /\ nextId = 1
  /\ pc = "idle"
  /\ settings = init_settings
  /\ sync_start = 0
  /\ queries = <<>>
  /\ events = <<>>
  /\ command_list = <<>>
  /\ idx = 1
  /\ startJobs = EmptyJobs
  /\ cancelReq = {}
  /\ schedReq = <<>>
  /\ fetchStatus = "none"
  /\ outcome = "none"
  /\ plan = <<>>
  /\ prev = <<>>

\* main's "except: logging.exception('Sync failed')"
Abort ==
  /\ pc' = "done"
  /\ outcome' = "failed"

\* ---------------------------------------------------------------- actions
\* The clock advances; the scheduler runs the jobs that are due.
Tick ==
  /\ now < MaxNow
  /\ pc \in {"idle", "parse", "schedule"}
  /\ now' = now + 1
  /\ atq' = {j \in atq : j.time > now + 1}
  /\ UNCHANGED <<disk, nextId, pc, procVars, outcome, plan, prev>>

\* main: GCalCron() loads the settings; sync_gcal_to_cron samples sync_start
\* and get_events builds the queries.
StartSync ==
  /\ pc = "idle"
  /\ settings' = disk
  /\ startJobs' = disk.jobs
  /\ sync_start' = now
  /\ queries' = get_events(now, disk.last_sync)
  /\ pc' = "fetch"
  /\ outcome' = "none"
  /\ UNCHANGED <<now, disk, atq, nextId, events, command_list, idx, cancelReq,
                 schedReq, fetchStatus, plan, prev>>

\* query_api with the batch rs[i] for query i; rev[i] marks a query that
\* raised AccessTokenRefreshError, which query_api prints and passes over.
FetchWith(rs, rev) ==
  /\ pc = "fetch"
  /\ events' = Concat(rs)
  /\ fetchStatus' = IF \E i \in DOMAIN rev : rev[i] THEN "revoked" ELSE "ok"
  /\ pc' = "parse"
  /\ UNCHANGED <<now, disk, atq, nextId, settings, sync_start, queries,
                 command_list, idx, startJobs, cancelReq, schedReq, outcome,
                 plan, prev>>

Batches(qs, t, rev) ==
  LET R(i) == IF rev[i] THEN {<<>>} ELSE QueryResults(qs[i], t)
      all == IF Len(qs) = 1 THEN { <<r>> : r \in R(1) }
                            ELSE { <<r1, r2>> : r1 \in R(1), r2 \in R(2) }
  IN { rs \in all : Snapshot(Concat(rs)) }

Fetch ==
  /\ pc = "fetch"
  /\ \E rs \in Batches(queries, now, [i \in DOMAIN queries |-> FALSE]) :
       FetchWith(rs, [i \in DOMAIN queries |-> FALSE])

FetchRevoked ==
  /\ pc = "fetch"
  /\ \E rev \in [DOMAIN queries -> BOOLEAN] :
       /\ \E i \in DOMAIN rev : rev[i]
       /\ \E rs \in Batches(queries, now, rev) : FetchWith(rs, rev)

\* any other exception of the API call leaves query_api and reaches main
FetchError ==
  /\ pc = "fetch"
  /\ Abort
  /\ UNCHANGED <<now, disk, atq, nextId, procVars, plan, prev>>

Parse ==
  /\ pc = "parse"
  /\ ~ParseRaises(events)
  /\ command_list' = parse_events(events, now)
  /\ pc' = "unschedule"
  /\ UNCHANGED <<now, disk, atq, nextId, settings, sync_start, queries, events,
                 idx, startJobs, cancelReq, schedReq, fetchStatus, outcome,
                 plan, prev>>

ParseError ==
  /\ pc = "parse"
  /\ ParseRaises(events)
  /\ Abort
  /\ UNCHANGED <<now, disk, atq, nextId, procVars, plan, prev>>

\* unschedule_old_jobs: the records go, then one "at -d" for all their ids
Unschedule ==
  /\ pc = "unschedule"
  /\ LET ids == SeqToSet(RemovedJobIds(command_list, settings.jobs)) IN
       /\ settings' = [settings EXCEPT !.jobs = JobsAfterUnschedule(command_list, @)]
       /\ cancelReq' = ids
       /\ atq' = AtRemove(atq, ids)
  /\ idx' = 1
  /\ pc' = "schedule"
  /\ UNCHANGED <<now, disk, nextId, sync_start, queries, events, command_list,
                 startJobs, schedReq, fetchStatus, outcome, plan, prev>>

\* subprocess.Popen raises (no "at" binary, no process to be had)
UnscheduleError ==
  /\ pc = "unschedule"
  /\ RemovedJobIds(command_list, settings.jobs) # <<>>
  /\ settings' = [settings EXCEPT !.jobs = JobsAfterUnschedule(command_list, @)]
  /\ Abort
  /\ UNCHANGED <<now, disk, atq, nextId, sync_start, queries, events,
                 command_list, idx, startJobs, cancelReq, schedReq, fetchStatus,
                 plan, prev>>

\* schedule_new_jobs, one turn of the loop: an entry without command or
\* with exec_time <= now is passed over
\* schedule_new_jobs with < for <= in line 262
DueStrict(entry, t) ==
  IF entry.command = <<>> THEN TRUE ELSE entry.command[1].exec_time < t

Due(entry, t) ==
  IF entry.command = <<>> THEN TRUE ELSE entry.command[1].exec_time <= t

ScheduleSkip ==
  /\ pc = "schedule"
  /\ idx <= Len(command_list)
  /\ Due(command_list[idx], now)
  /\ idx' = idx + 1
  /\ UNCHANGED <<now, disk, atq, nextId, pc, settings, sync_start, queries,
                 events, command_list, startJobs, cancelReq, schedReq,
                 fetchStatus, outcome, plan, prev>>

\* "at" answers "job <n> at ...": the job is queued and its id recorded;
\* the scheduler has cap job numbers to hand out
ScheduleJobUpTo(cap) ==
  /\ pc = "schedule"
  /\ idx <= Len(command_list)
  /\ ~Due(command_list[idx], now)
  /\ nextId <= cap
  /\ LET entry == command_list[idx]
         t == entry.command[1].exec_time
     IN /\ atq' = atq \cup {[id |-> nextId, uid |-> entry.uid, time |-> t]}
        /\ schedReq' = Append(schedReq, [uid |-> entry.uid, time |-> t, id |-> nextId])
        /\ settings' = [settings EXCEPT !.jobs = RecordJob(@, entry.uid, t, nextId)]
  /\ nextId' = nextId + 1
  /\ idx' = idx + 1
  /\ UNCHANGED <<now, disk, pc, sync_start, queries, events, command_list,
                 startJobs, cancelReq, fetchStatus, outcome, plan, prev>>

ScheduleJob == ScheduleJobUpTo(MaxJobs)

\* schedule_new_jobs that leaves the loop when "at" returns no job id
ScheduleNoIdBreaks ==
  /\ pc = "schedule"
  /\ idx <= Len(command_list)
  /\ ~Due(command_list[idx], now)
  /\ LET entry == command_list[idx] IN
       schedReq' = Append(schedReq, [uid |-> entry.uid,
                                     time |-> entry.command[1].exec_time, id |-> 0])
  /\ idx' = Len(command_list) + 1
  /\ UNCHANGED <<now, disk, atq, nextId, pc, settings, sync_start, queries,
                 events, command_list, startJobs, cancelReq, fetchStatus,
                 outcome, plan, prev>>

\* "at" answers something else: no job, no id (id 0 in the log)
ScheduleNoId ==
  /\ pc = "schedule"
  /\ idx <= Len(command_list)
  /\ ~Due(command_list[idx], now)
  /\ LET entry == command_list[idx] IN
       schedReq' = Append(schedReq, [uid |-> entry.uid,
                                     time |-> entry.command[1].exec_time, id |-> 0])
  /\ idx' = idx + 1
  /\ UNCHANGED <<now, disk, atq, nextId, pc, settings, sync_start, queries,
                 events, command_list, startJobs, cancelReq, fetchStatus,
                 outcome, plan, prev>>

\* subprocess.Popen raises
ScheduleError ==
  /\ pc = "schedule"
  /\ idx <= Len(command_list)
  /\ ~Due(command_list[idx], now)
  /\ Abort
  /\ UNCHANGED <<now, disk, atq, nextId, procVars, plan, prev>>

\* the loop is over; clean_settings
Clean ==
  /\ pc = "schedule"
  /\ idx > Len(command_list)
  /\ settings' = [settings EXCEPT !.jobs = clean_settings(@, now)]
  /\ pc' = "save"
  /\ UNCHANGED <<now, disk, atq, nextId, sync_start, queries, events,
                 command_list, idx, startJobs, cancelReq, schedReq, fetchStatus,
                 outcome, plan, prev>>

\* last_sync = str(sync_start); save_settings; 'Sync succeeded'
SaveStep ==
  /\ pc = "save"
  /\ settings' = [settings EXCEPT !.last_sync = <<sync_start>>]
  /\ disk' = settings'
  /\ pc' = "done"
  /\ outcome' = "succeeded"
  /\ UNCHANGED <<now, atq, nextId, sync_start, queries, events, command_list,
                 idx, startJobs, cancelReq, schedReq, fetchStatus, plan>>

Save ==
  /\ SaveStep
  /\ UNCHANGED prev

\* save_settings raises (IOError on open or write)
SaveError ==
  /\ pc = "save"
  /\ settings' = [settings EXCEPT !.last_sync = <<sync_start>>]
  /\ Abort
  /\ UNCHANGED <<now, disk, atq, nextId, sync_start, queries, events,
                 command_list, idx, startJobs, cancelReq, schedReq, fetchStatus,
                 plan, prev>>

\* reset_settings without line 239: last_sync is left as it was
ResetKeepsLastSync ==
  /\ pc = "idle"
  /\ startJobs' = disk.jobs
  /\ cancelReq' = AllIds(disk.jobs)
  /\ atq' = AtRemove(atq, AllIds(disk.jobs))
  /\ settings' = [disk EXCEPT !.jobs = EmptyJobs]
  /\ disk' = [disk EXCEPT !.jobs = EmptyJobs]
  /\ pc' = "done"
  /\ outcome' = "reset"
  /\ UNCHANGED <<now, nextId, sync_start, queries, events, command_list, idx,
                 schedReq, fetchStatus, plan, prev>>

\* main with --reset: reset_settings cancels every record's ids, clears the
\* settings and saves them
Reset ==
  /\ pc = "idle"
  /\ startJobs' = disk.jobs
  /\ cancelReq' = AllIds(disk.jobs)
  /\ atq' = AtRemove(atq, AllIds(disk.jobs))
  /\ settings' = init_settings
  /\ disk' = init_settings
  /\ pc' = "done"
  /\ outcome' = "reset"
  /\ UNCHANGED <<now, nextId, sync_start, queries, events, command_list, idx,
                 schedReq, fetchStatus, plan, prev>>

\* reset_settings fails: Popen raises after the records in S were cancelled,
\* or save_settings raises after all were
ResetError ==
  /\ pc = "idle"
  /\ disk.jobs # EmptyJobs
  /\ \E S \in SUBSET DOMAIN disk.jobs :
       LET ids == UNION { SeqToSet(disk.jobs[u].ids) : u \in S } IN
         /\ cancelReq' = ids
         /\ atq' = AtRemove(atq, ids)
  /\ startJobs' = disk.jobs
  /\ settings' = disk
  /\ Abort
  /\ UNCHANGED <<now, disk, nextId, sync_start, queries, events, command_list,
                 idx, schedReq, fetchStatus, plan, prev>>

\* the process ends; nothing of it is left but the settings file and the queue
Exit ==
  /\ pc = "done"
  /\ pc' = "idle"
  /\ settings' = init_settings
  /\ sync_start' = 0
  /\ queries' = <<>>
  /\ events' = <<>>
  /\ command_list' = <<>>
  /\ idx' = 1
  /\ startJobs' = EmptyJobs
  /\ cancelReq' = {}
  /\ schedReq' = <<>>
  /\ fetchStatus' = "none"
  /\ outcome' = "none"
  /\ UNCHANGED <<now, disk, atq, nextId, plan, prev>>

Next ==
  \/ Tick
  \/ StartSync
  \/ Fetch
  \/ FetchRevoked
  \/ FetchError
  \/ Parse
  \/ ParseError
  \/ Unschedule
  \/ UnscheduleError
  \/ ScheduleSkip
  \/ ScheduleJob
  \/ ScheduleNoId
  \/ ScheduleError
  \/ Clean
  \/ Save
  \/ SaveError
  \/ Reset
  \/ ResetError
  \/ Exit

Spec == Init /\ [][Next]_vars

\* ------------------------------------------------ parse_events on its own
\* Every line the mini-language of the docstrings can express within
\* MaxOffset: "<text>", "<n>: <text>", "end <n>: <text>".
Lines == { Line(a, o) : a \in {"start", "end"}, o \in (0 - MaxOffset)..MaxOffset }

ParseInputs ==
  { Event(i, st, s, s + len, d, b) :
      i \in {"e1"}, st \in {"confirmed", "cancelled"}, s \in 0..(MaxNow + 1),
      len \in 0..EventLen, d \in SeqsUpTo(Lines, 2), b \in BOOLEAN }

InitParse ==
  /\ now \in 0..MaxNow
  /\ disk = init_settings
  /\ atq = {}
  /\ nextId = 1
  /\ pc = "parse"
  /\ settings = init_settings
  /\ sync_start = now
  /\ queries = get_events(now, <<>>)
  /\ events \in { <<e>> : e \in ParseInputs }
  /\ command_list = <<>>
  /\ idx = 1
  /\ startJobs = EmptyJobs
  /\ cancelReq = {}
  /\ schedReq = <<>>
  /\ fetchStatus = "ok"
  /\ outcome = "none"
  /\ plan = <<>>
  /\ prev = <<>>

NextParse ==
  \/ Parse
  \/ ParseError

SpecParse == InitParse /\ [][NextParse]_vars

\* --------------------------------------------- clean_settings on its own
\* The stores clean_settings can meet: any record of a job that was once
\* scheduled, however long ago the last run was.
Stores ==
  LET recs == { [date |-> d, ids |-> <<n>>] : d \in 0..(MaxNow + 1), n \in 1..2 }
  IN UNION { [S -> recs] : S \in SUBSET Ids }

InitClean ==
  /\ now \in 0..(DayLen * (MaxNow + 1))
  /\ disk \in { [jobs |-> j, last_sync |-> <<0>>] : j \in Stores }
  /\ atq = {}
  /\ nextId = 1
  /\ pc = "schedule"
  /\ settings = disk
  /\ sync_start = now
  /\ queries = get_events(now, <<0>>)
  /\ events = <<>>
  /\ command_list = <<>>
  /\ idx = 1
  /\ startJobs = disk.jobs
  /\ cancelReq = {}
  /\ schedReq = <<>>
  /\ fetchStatus = "ok"
  /\ outcome = "none"
  /\ plan = <<>>
  /\ prev = <<>>

NextClean ==
  \/ Clean
  \/ Save

SpecClean == InitClean /\ [][NextClean]_vars

\* ------------------------------------- two cycles over one unchanged batch
\* The calendar answers both cycles with the batch plan, the scheduler
\* accepts every request and nothing fails.
FetchPlan ==
  /\ pc = "fetch"
  /\ FetchWith(<<plan>>, <<FALSE>>)

StartSyncTwice ==
  /\ Len(prev) < 2
  /\ StartSync

\* two cycles over a batch of two queries never run out of job numbers
ScheduleJobTwice == ScheduleJobUpTo(4 * MaxPerQuery)

\* what a finished cycle leaves: its requests, its cancellations, the store
\* and the queue
SaveTwice ==
  /\ SaveStep
  /\ prev' = Append(prev, [reqs |-> schedReq, cancel |-> cancelReq,
                            jobs |-> settings'.jobs, atq |-> atq])

InitTwice ==
  /\ now = 0
  /\ disk = [jobs |-> EmptyJobs, last_sync |-> <<0>>]
  /\ atq = {}
  /\ nextId = 1
  /\ pc = "idle"
  /\ settings = init_settings
  /\ sync_start = 0
  /\ queries = <<>>
  /\ events = <<>>
  /\ command_list = <<>>
  /\ idx = 1
  /\ startJobs = EmptyJobs
  /\ cancelReq = {}
  /\ schedReq = <<>>
  /\ fetchStatus = "none"
  /\ outcome = "none"
  /\ plan \in { Concat(rs) : rs \in Batches(get_events(0, <<0>>), 0, <<FALSE, FALSE>>) }
  /\ prev = <<>>

NextTwice ==
  \/ Tick
  \/ StartSyncTwice
  \/ FetchPlan
  \/ Parse
  \/ ParseError
  \/ Unschedule
  \/ ScheduleSkip
  \/ ScheduleJobTwice
  \/ Clean
  \/ SaveTwice
  \/ Exit

SpecTwice == InitTwice /\ [][NextTwice]_vars

\* ----------------------------------------------------------------- claims
InSync == pc \in {"fetch", "parse", "unschedule", "schedule", "save"}
            \/ (pc = "done" /\ outcome # "reset")

\* unschedule_old_jobs has run in this sync cycle
Reconciled == pc \in {"schedule", "save"} \/ (pc = "done" /\ outcome = "succeeded")

UidsOf(cl) == { cl[i].uid : i \in DOMAIN cl }

NewIds == { schedReq[i].id : i \in DOMAIN schedReq } \ {0}

AllAccepted == \A i \in DOMAIN schedReq : schedReq[i].id # 0

Occurrences(evs, u) == Cardinality({ i \in DOMAIN evs : evs[i].id = u })

RequestsFor(u) == { i \in DOMAIN schedReq : schedReq[i].uid = u }

\* C1: once a sync cycle has issued a schedule request, the records of all
\* events of the parsed batch are out of the store and their job ids have
\* been handed to "at -d"; and at no moment of a cycle does an event have
\* both a job recorded before the cycle and a job scheduled in the cycle
\* pending in the queue.
C1_CancelBeforeSchedule ==
  InSync =>
    /\ schedReq # <<>> =>
          \A u \in UidsOf(command_list) :
            /\ IdsOf(startJobs, u) \subseteq cancelReq
            /\ IdsOf(settings.jobs, u) \cap IdsOf(startJobs, u) = {}
    /\ \A j, k \in atq :
          ~(j.uid = k.uid /\ j.id \in IdsOf(startJobs, j.uid) /\ k.id \in NewIds)

\* an event that had a record gets a job in the cycle
C1_Witness ==
  /\ InSync
  /\ \E i \in DOMAIN schedReq :
       /\ schedReq[i].id # 0
       /\ IdsOf(startJobs, schedReq[i].uid) # {}
       /\ \E j \in atq : j.id = schedReq[i].id

\* C2: between runs, every job pending in the queue is recorded in the
\* settings file under its event id.
C2_NoOrphans ==
  pc \in {"idle", "done"} =>
    \A j \in atq : j.id \in IdsOf(disk.jobs, j.uid)

\* C3: a cycle over a batch that holds an event twice leaves no duplicate
\* job: no two accepted schedule requests for the same event at the same
\* exec time.
C3_NoDuplicateJob ==
  (pc = "done" /\ outcome = "succeeded") =>
    \A i, k \in DOMAIN schedReq :
      (schedReq[i].uid = schedReq[k].uid /\ schedReq[i].time = schedReq[k].time
         /\ schedReq[i].id # 0 /\ schedReq[k].id # 0) => i = k

\* C5: a fetched, confirmed, well-formed event with a non-empty description
\* whose start is before the cycle's start and that has a record is
\* cancel-only: its ids are handed to "at -d" and its record is removed.
C5_PastDueCancelOnly ==
  Reconciled =>
    \A i \in DOMAIN events :
      LET e == events[i] IN
        (e.status = "confirmed" /\ e.description # <<>> /\ ~e.bad
           /\ e.start < sync_start /\ e.id \in DOMAIN startJobs) =>
          /\ IdsOf(startJobs, e.id) \subseteq cancelReq
          /\ e.id \notin DOMAIN settings.jobs

\* C6: in a cycle that got to reconcile its batch, a cancelled event's
\* recorded ids are all handed to "at -d", no record is left for it and no
\* schedule request is issued for it; nothing but the recorded ids of the
\* batch's events is cancelled.
C6_CancelledEvent ==
  Reconciled =>
    /\ \A i \in DOMAIN events :
         events[i].status = "cancelled" =>
           /\ IdsOf(startJobs, events[i].id) \subseteq cancelReq
           /\ events[i].id \notin DOMAIN settings.jobs
           /\ RequestsFor(events[i].id) = {}
    /\ cancelReq = UNION { IdsOf(startJobs, u) : u \in UidsOf(command_list) }
    /\ UidsOf(command_list) \subseteq { events[i].id : i \in DOMAIN events }

\* a cancelled event with a record of a pending job went through a cycle
C6_Witness ==
  /\ pc = "done"
  /\ outcome = "succeeded"
  /\ \E i \in DOMAIN events :
       /\ events[i].status = "cancelled"
       /\ IdsOf(startJobs, events[i].id) # {}
       /\ IdsOf(startJobs, events[i].id) \subseteq cancelReq

\* C7: a confirmed event without prior state whose description has N lines,
\* all in the future, gets N schedule requests and a record of N job ids
\* when every request returns a job id.
C7_OneJobPerLine ==
  (pc = "done" /\ outcome = "succeeded" /\ AllAccepted) =>
    \A i \in DOMAIN events :
      LET e == events[i] IN
        (e.status = "confirmed" /\ ~e.bad /\ e.start > now
           /\ e.id \notin DOMAIN startJobs /\ Occurrences(events, e.id) = 1) =>
          /\ Cardinality(RequestsFor(e.id)) = Len(e.description)
          /\ Cardinality(IdsOf(settings.jobs, e.id)) = Len(e.description)

\* C10: a cycle whose fetch failed, by a revoked credential too, issues no
\* cancel and no schedule request, leaves the jobs and last_sync of the
\* settings file as they were and is not reported as succeeded.
C10_FetchFailureAborts ==
  (InSync /\ fetchStatus = "revoked") =>
    /\ cancelReq = {}
    /\ schedReq = <<>>
    /\ disk.jobs = startJobs
    /\ disk.last_sync = queries[1].updatedMin
    /\ outcome # "succeeded"
\* C4: a second cycle over the same batch, all starts still ahead and every
\* request accepted, cancels exactly the ids the first cycle recorded and
\* issues the same requests again; each event has as many recorded and
\* pending jobs as after the first cycle, and none of the first cycle's.
Reqs(rs) == [i \in DOMAIN rs |-> [uid |-> rs[i].uid, time |-> rs[i].time]]

ReqIds(rs) == { rs[i].id : i \in DOMAIN rs }

Pending(q, u) == Cardinality({ j \in q : j.uid = u })

StillAhead == \A i \in DOMAIN plan : plan[i].status = "confirmed" => plan[i].start > now

C4_SecondCycle ==
  (Len(prev) = 2 /\ StillAhead) =>
    /\ prev[2].cancel = ReqIds(prev[1].reqs)
    /\ Reqs(prev[2].reqs) = Reqs(prev[1].reqs)
    /\ DOMAIN prev[2].jobs = DOMAIN prev[1].jobs
    /\ \A u \in DOMAIN prev[2].jobs :
         /\ Len(prev[2].jobs[u].ids) = Len(prev[1].jobs[u].ids)
         /\ prev[2].jobs[u].date = prev[1].jobs[u].date
    /\ \A u \in Ids : Pending(atq, u) = Pending(prev[1].atq, u)
    /\ \A j \in atq : j.id \notin ReqIds(prev[1].reqs)

\* the second cycle has rescheduled a job of the first
C4_Witness ==
  /\ Len(prev) = 2
  /\ StillAhead
  /\ prev[1].reqs # <<>>
  /\ prev[2].cancel # {}
  /\ atq # {}

\* C8: the exec times parsed for a confirmed event are the times its lines
\* name: start + n for "<n>: X" and a line without offset, end + n for
\* "end <n>: X" (all of them ahead of now, so that none is dropped).
LineTime(l, e) == IF l.anchor = "end" THEN e.end + l.off ELSE e.start + l.off

C8_ExecTimeFromOffset ==
  pc = "unschedule" =>
    \A i \in DOMAIN events :
      LET e == events[i]
          times == { LineTime(e.description[k], e) : k \in DOMAIN e.description }
      IN (e.status = "confirmed" /\ (\A t \in times : t > now)) =>
           { command_list[k].command[1].exec_time :
               k \in { n \in DOMAIN command_list : command_list[n].uid = e.id } } = times

\* C9 as stated: clean_settings removes the records dated two or more days
\* before now's date and keeps those dated yesterday, today or later.
C9_KeepsYesterday ==
  pc = "save" =>
    \A u \in DOMAIN startJobs :
      u \in DOMAIN settings.jobs <=> startJobs[u].date >= DateOf(now) - 1

\* C9 amended: clean_settings removes exactly the records dated before
\* now's date, whatever the time of day, and leaves the others as they were.
C9_RemovesBeforeToday ==
  pc = "save" =>
    /\ \A u \in DOMAIN startJobs :
         u \in DOMAIN settings.jobs <=> startJobs[u].date >= DateOf(now)
    /\ \A u \in DOMAIN settings.jobs : settings.jobs[u] = startJobs[u]

\* a record of yesterday went and a record of today stayed, past midnight
C9_Witness ==
  /\ pc = "save"
  /\ now % DayLen # 0
  /\ \E u \in DOMAIN startJobs :
       startJobs[u].date = DateOf(now) - 1 /\ u \notin DOMAIN settings.jobs
  /\ \E u \in DOMAIN startJobs :
       startJobs[u].date = DateOf(now) /\ u \in DOMAIN settings.jobs

\* C11: a cycle whose batch holds an event with a malformed start skips
\* that event alone: the cycle completes, last_sync is the cycle's start
\* and the recorded ids of the other events of the batch are cancelled.
C11_BadEventSkipped ==
  (pc = "done" /\ outcome # "reset" /\ ParseRaises(events)) =>
    /\ outcome = "succeeded"
    /\ disk.last_sync = <<sync_start>>
    /\ \A i \in DOMAIN events :
         (~events[i].bad /\ events[i].status = "cancelled") =>
           IdsOf(startJobs, events[i].id) \subseteq cancelReq

\* C12: a schedule request that returns no job id drops that entry alone.
\* When the loop is over, the ids recorded for an event whose command is
\* still ahead are the ids its requests returned, in order, and every entry
\* still ahead has had its request, whatever the requests before it returned.
AheadReqs == SelectSeq(schedReq, LAMBDA r : r.time > now)

AheadEntries == SelectSeq(command_list,
                          LAMBDA c : IF c.command = <<>> THEN FALSE
                                     ELSE c.command[1].exec_time > now)

ReturnedFor(u) == SelectSeq(schedReq, LAMBDA r : r.uid = u /\ r.id # 0)

C12_NoIdDropsOneEntry ==
  (pc = "save" \/ (pc = "done" /\ outcome = "succeeded")) =>
    /\ [i \in DOMAIN AheadReqs |-> AheadReqs[i].uid]
         = [i \in DOMAIN AheadEntries |-> AheadEntries[i].uid]
    /\ \A i \in DOMAIN AheadReqs :
         LET u == AheadReqs[i].uid
             ids == [k \in DOMAIN ReturnedFor(u) |-> ReturnedFor(u)[k].id]
         IN IF ids = <<>> THEN u \notin DOMAIN settings.jobs
            ELSE u \in DOMAIN settings.jobs /\ settings.jobs[u].ids = ids

\* a request without job id was followed by one that returned an id
C12_Witness ==
  /\ pc = "save"
  /\ \E i, k \in DOMAIN schedReq :
       /\ i < k
       /\ schedReq[i].id = 0
       /\ schedReq[k].id # 0
       /\ schedReq[k].time > now
       /\ schedReq[k].id \in IdsOf(settings.jobs, schedReq[k].uid)

\* C13: every fetched event that had a record when the cycle started has
\* that record's ids cancelled and out of the store, whatever its status
\* and content, and none of those jobs is left pending.
C13_EveryFetchedEventUnscheduled ==
  Reconciled =>
    \A i \in DOMAIN events :
      LET old == IdsOf(startJobs, events[i].id) IN
        /\ old \subseteq cancelReq
        /\ IdsOf(settings.jobs, events[i].id) \cap old = {}
        /\ \A j \in atq : j.id \notin old

\* C14: after a full reset the store holds no record, last_sync is null,
\* that state is in the settings file, and every id a record held has been
\* handed to "at -d" and is out of the queue.
C14_ResetAll ==
  (pc = "done" /\ outcome = "reset") =>
    /\ settings = [jobs |-> EmptyJobs, last_sync |-> <<>>]
    /\ disk = settings
    /\ UNION { IdsOf(startJobs, u) : u \in DOMAIN startJobs } \subseteq cancelReq
    /\ \A j \in atq : \A u \in DOMAIN startJobs : j.id \notin IdsOf(startJobs, u)

\* a reset of a store with two records, after a sync
C14_Witness ==
  /\ pc = "done"
  /\ outcome = "reset"
  /\ Cardinality(DOMAIN startJobs) = 2
  /\ Cardinality(cancelReq) >= 2

\* C15: every job id in the store, in memory or in the settings file, is a
\* number the scheduler has handed out, sits in one record only and once;
\* an id enters the in-memory store under uid only in the step in which the
\* scheduler queues a job for uid's command and returns that id, or when
\* the settings file is loaded, and enters the file only from memory.
SoundIds(jobs) ==
  /\ \A u \in DOMAIN jobs :
       /\ \A k \in DOMAIN jobs[u].ids : jobs[u].ids[k] \in 1..(nextId - 1)
       /\ \A k, n \in DOMAIN jobs[u].ids : jobs[u].ids[k] = jobs[u].ids[n] => k = n
  /\ \A u, v \in DOMAIN jobs : u # v => IdsOf(jobs, u) \cap IdsOf(jobs, v) = {}

IdsEnterFromScheduler ==
  \A u \in Ids :
    /\ \A id \in IdsOf(settings'.jobs, u) \ IdsOf(settings.jobs, u) :
         \/ /\ id = nextId
            /\ nextId' = nextId + 1
            /\ \E j \in atq' \ atq : j.id = id /\ j.uid = u
         \/ id \in IdsOf(disk.jobs, u)
    /\ \A id \in IdsOf(disk'.jobs, u) \ IdsOf(disk.jobs, u) :
         id \in IdsOf(settings.jobs, u)

C15_StoreIdsFromScheduler ==
  /\ [](SoundIds(disk.jobs) /\ SoundIds(settings.jobs))
  /\ [][IdsEnterFromScheduler]_vars

\* the settings file holds ids of pending jobs under two events
C15_Witness ==
  /\ pc = "idle"
  /\ \A u \in Ids : \E j \in atq : j.uid = u /\ j.id \in IdsOf(disk.jobs, u)

\* C16 as stated, its parse-time half: an entry whose exec time is not
\* strictly after now is dropped by the parser.
C16_DroppedAtParseTime ==
  pc = "unschedule" =>
    \A k \in DOMAIN command_list :
      command_list[k].command # <<>> => command_list[k].command[1].exec_time > now

\* C16 amended: no schedule request is issued for a command whose exec time
\* is not strictly after now; the parser drops the entries before now and
\* keeps one at now, which schedule_new_jobs then passes over.
C16_NoRequestUnlessAhead ==
  /\ [](pc = "unschedule" =>
          \A k \in DOMAIN command_list :
            command_list[k].command # <<>> =>
              command_list[k].command[1].exec_time >= now)
  /\ [][Len(schedReq') > Len(schedReq) =>
          schedReq'[Len(schedReq')].time > now]_vars

\* an entry at or before now went through the loop without a request
C16_Witness ==
  /\ pc = "save"
  /\ \E k \in DOMAIN command_list :
       /\ command_list[k].command # <<>>
       /\ command_list[k].command[1].exec_time <= now
       /\ RequestsFor(command_list[k].uid) = {}

\* C17: the queries of a cycle are (now, last_sync + num_days, last_sync)
\* and (last_sync + num_days, now + num_days, none) when there is a
\* last_sync, (now, now + num_days, none) when there is none, now being the
\* clock at the cycle's start; a completed cycle leaves that now as last_sync.
Windows(qs) == [i \in DOMAIN qs |-> <<qs[i].timeMin, qs[i].timeMax, qs[i].updatedMin>>]

C17_FetchWindows ==
  /\ pc = "fetch" => sync_start = now
  /\ pc \in {"fetch", "parse", "unschedule", "schedule", "save"} =>
       Windows(queries) =
         IF disk.last_sync = <<>>
           THEN << <<sync_start, sync_start + num_days, <<>> >> >>
           ELSE << <<sync_start, disk.last_sync[1] + num_days, disk.last_sync>>,
                   <<disk.last_sync[1] + num_days, sync_start + num_days, <<>> >> >>
  /\ (pc = "done" /\ outcome = "succeeded") =>
       /\ disk.last_sync = <<sync_start>>
       /\ sync_start <= now

\* a two-window cycle, later than the last one, completed after the clock
\* had moved on
C17_Witness ==
  /\ pc = "done"
  /\ outcome = "succeeded"
  /\ Len(queries) = 2
  /\ queries[1].updatedMin[1] < sync_start
  /\ sync_start < now

\* ------------------------------------------------- cycles after a long gap
\* The program starts at any time with a settings file left by an earlier
\* run: last_sync is absent or a time not after now, and may be more than
\* num_days old. Only the start of a cycle is followed (load, sample the
\* clock, build the queries); the API refusing a query ends the cycle.
InitWindows ==
  /\ now \in 0..(num_days + MaxNow)
  /\ disk \in { [jobs |-> EmptyJobs, last_sync |-> ls] :
                 ls \in {<<>>} \cup { <<t>> : t \in 0..now } }
  /\ atq = {}
  /\ nextId = 1
  /\ pc = "idle"
  /\ settings = init_settings
  /\ sync_start = 0
  /\ queries = <<>>
  /\ events = <<>>
  /\ command_list = <<>>
  /\ idx = 1
  /\ startJobs = EmptyJobs
  /\ cancelReq = {}
  /\ schedReq = <<>>
  /\ fetchStatus = "none"
  /\ outcome = "none"
  /\ plan = <<>>
  /\ prev = <<>>

NextWindows == StartSync \/ FetchError \/ Exit

SpecWindows == InitWindows /\ [][NextWindows]_vars

\* C18: every query of a cycle has timeMin <= timeMax, whatever the age of
\* the stored last_sync.
C18_WindowsWellFormed ==
  pc = "fetch" =>
    \A i \in DOMAIN queries : queries[i].timeMin <= queries[i].timeMax

\* ------------------------------------------- repeated cycles, one calendar
\* The calendar holds the events of plan, confirmed, with a command, starting
\* after the last clock value, created before the program first ran (edit
\* time 0) and never edited.  events().list answers a query with the events
\* that start before timeMax, end after timeMin and, when updatedMin is
\* given, were edited at updatedMin or later.
Listed(q, cal) ==
  SelectSeq(cal, LAMBDA e : /\ e.start < q.timeMax
                            /\ e.end > q.timeMin
                            /\ (q.updatedMin = <<>> \/ 0 >= q.updatedMin[1]))

Calendars ==
  { c \in SeqsUpTo({ Event(i, "confirmed", MaxNow + 1, MaxNow + 1 + EventLen, d, FALSE) :
                       i \in Ids, d \in {DescOne, DescTwo} }, Cardinality(Ids)) :
      /\ c # <<>>
      /\ \A i, j \in 1..Len(c) : c[i].id = c[j].id => i = j }

FetchCalendar ==
  /\ pc = "fetch"
  /\ FetchWith([i \in DOMAIN queries |-> Listed(queries[i], plan)],
               [i \in DOMAIN queries |-> FALSE])

InitLive ==
  /\ now = 1
  /\ disk = init_settings
  /\ atq = {}
  /\ nextId = 1
  /\ pc = "idle"
  /\ settings = init_settings
  /\ sync_start = 0
  /\ queries = <<>>
  /\ events = <<>>
  /\ command_list = <<>>
  /\ idx = 1
  /\ startJobs = EmptyJobs
  /\ cancelReq = {}
  /\ schedReq = <<>>
  /\ fetchStatus = "none"
  /\ outcome = "none"
  /\ plan \in Calendars
  /\ prev = <<>>

\* no event of the calendar is cancelled or due, so schedule_new_jobs never
\* passes an entry over; nothing raises
NextLive ==
  \/ Tick
  \/ StartSync
  \/ FetchCalendar
  \/ Parse
  \/ Unschedule
  \/ ScheduleJob
  \/ ScheduleNoId
  \/ Clean
  \/ Save
  \/ Exit

\* cron keeps starting the program and every started cycle runs on; at
\* answers with a job number if it is asked again and again
SpecLive ==
  /\ InitLive
  /\ [][NextLive]_vars
  /\ WF_vars(NextLive)
  /\ SF_vars(ScheduleJob)

\* C19: every event of the calendar (confirmed, with a command, inside the
\* fetch horizon and ahead of the clock throughout) eventually has a job id
\* in the settings file.
C19_EventuallyRecorded ==
  \A u \in Ids :
    (\E k \in DOMAIN plan : plan[k].id = u) ~> (IdsOf(disk.jobs, u) # {})
====
